---- MODULE Spec2Model ----
(***************************************************************************)
(* A model of the scheduling coordinator of flaml/searcher/blendsearch.py: *)
(* BlendSearch (the default coordinator) and CFO (the restricted variant). *)
(*                                                                         *)
(* The coordinator's fields are the variables; suggest, on_trial_result    *)
(* and on_trial_complete are the actions.  SearchThread, FLOW2 and the     *)
(* global search engine are collaborators whose code is not part of        *)
(* blendsearch.py: what they return (a proposed configuration, a           *)
(* priority, can_suggest, reach, converged) is a nondeterministic input of *)
(* the action that calls them.                                             *)
(*                                                                         *)
(* Numbers.  Objectives, constraint values and normalized coordinates are  *)
(* integers.  np.inf is the integer Inf, larger than every objective the   *)
(* model can build; BlendSearch.penalty (1e10) is scaled to Penalty so     *)
(* that Penalty * violation stays inside TLC's 32-bit integers.            *)
(*                                                                         *)
(* The model is built without a resource dimension (prune_attr = None), so *)
(* self._ls._resource is false and every thread's resource is 0.           *)
(***************************************************************************)
EXTENDS Integers, Sequences, FiniteSets, TLC

(***************************************************************************)
(* Bounds of the model.                                                    *)
(***************************************************************************)
\* configuration values are 0..MaxVal in every dimension
MaxVal == 2
\* trial ids are 1..MaxTrials; every suggest call uses a fresh one
MaxTrials == 3
\* a trial reports a primary metric in 0..MaxObj
MaxObj == 1
\* a trial reports a constrained metric in 0..MaxCons (or does not report it)
MaxCons == 2
\* time.time() returns a value in 0..MaxTime
MaxTime == 1

(***************************************************************************)
(* Program constants.                                                      *)
(***************************************************************************)
\* np.inf
Inf == 1000000000
\* BlendSearch.penalty = 1e+10, scaled
Penalty == 1000
\* FLOW2.STEPSIZE, in units of the normalized grid
STEPSIZE == 1
\* distance, in normalized units, between two neighbouring values
Scale == 2
\* result.get(key) when the key is missing (None)
Absent == -1
\* self._trial_proposed_by.get(trial_id) when the trial is unknown (None)
NoneId == -1
\* 'time_total_s': 1 of a synthesized result; result.get(cost_attr, 1)
SynthCost == 1
\* the cost every externally evaluated trial reports
TrialCost == 2

(***************************************************************************)
(* Configurations, signatures, normalized points.                          *)
(***************************************************************************)
DimSeq == <<"x">>
Dims == {DimSeq[i] : i \in 1..Len(DimSeq)}
Vals == 0..MaxVal
Configs == [Dims -> Vals]
Trials == 1..MaxTrials
ConsMetrics == {"m"}

\* FLOW2.normalize: the configuration in the normalized coordinate space
normalize(config) == [k \in DOMAIN config |-> config[k] * Scale]

\* FLOW2.config_signature: the values in the canonical order of the keys
config_signature(config) == [i \in 1..Len(DimSeq) |-> config[DimSeq[i]]]

\* FLOW2.metric_op
metric_op(m) == IF m = "max" THEN -1 ELSE 1

(***************************************************************************)
(* Result records.  kind "none" is None, "empty" is {}, "full" is a result *)
(* reported by a trial (with its config/ keys, metric, cost and the        *)
(* constrained metrics; lagrange is the derived metric once it is set),    *)
(* "synth" is the result _should_skip synthesizes (metric and cost only).  *)
(***************************************************************************)
DummyConfig == [k \in Dims |-> 0]
NoCons == [n \in ConsMetrics |-> Absent]
NoResult == [kind |-> "none", config |-> DummyConfig, metric |-> 0, cons |-> NoCons,
             hasLagrange |-> FALSE, lagrange |-> 0, cost |-> 0]
EmptyResult == [NoResult EXCEPT !.kind = "empty"]
FullResult(config, metric, cons) ==
    [kind |-> "full", config |-> config, metric |-> metric, cons |-> cons,
     hasLagrange |-> FALSE, lagrange |-> 0, cost |-> TrialCost]
\* `if result:` of Python
Truthy(r) == r.kind \in {"full", "synth"}

\* function helpers
Remove(f, x) == [y \in DOMAIN f \ {x} |-> f[y]]
Put(f, x, v) == [y \in DOMAIN f \cup {x} |-> IF y = x THEN v ELSE f[y]]
EmptyMap == [y \in {} |-> 0]

VARIABLES
    \* constructor arguments, fixed by Init
    variant,                    \* "BlendSearch" or "CFO" (__name__)
    config_constraints,         \* sequence of [sign, threshold] on the value of x
    metric_constraints,         \* sequence of [metric, sign, threshold]
    init_config,                \* self._ls.init_config (low_cost_partial_config)
    prune_attr,                 \* whether prune_attr is given
    \* the coordinator's fields
    metric,                     \* self._metric
    mode,                       \* self._mode, "min" or "max"
    deadline,                   \* self._deadline
    points_to_evaluate,
    candidate_start_points,     \* [isNone, points: trial id -> result]
    started_from_given,         \* "unset", "true", "false"
    started_from_low_cost,      \* "unset", "true", "false"
    metric_target,
    search_thread_pool,         \* thread id -> [obj_best1, obj_best2, converged]
    thread_count,
    init_used,
    trial_proposed_by,          \* trial id -> thread id
    ls_bound_min, ls_bound_max,
    gs_admissible_min, gs_admissible_max,
    result,                     \* config signature -> result record
    metric_constraint_satisfied,
    metric_constraint_penalty,
    reset_times,                \* self._ls._reset_times, capped at 1
    ls_lagrange,                \* self._ls.metric carries the lagrange suffix
    failure,                    \* "none", or the exception that ended a call
    \* the trial runner
    trials,                     \* trial id -> [status, config, late]
    property_calls              \* the calls of set_search_properties so far

vars == <<variant, config_constraints, metric_constraints, init_config, prune_attr,
          metric, mode, deadline, points_to_evaluate, candidate_start_points, started_from_given,
          started_from_low_cost, metric_target, search_thread_pool, thread_count,
          init_used, trial_proposed_by, ls_bound_min, ls_bound_max,
          gs_admissible_min, gs_admissible_max, result,
          metric_constraint_satisfied, metric_constraint_penalty, reset_times,
          ls_lagrange, failure, trials, property_calls>>

\* the coordinator as one record, so that a handler is a function on it
Self ==
    [variant |-> variant, config_constraints |-> config_constraints,
     metric_constraints |-> metric_constraints, init_config |-> init_config,
     prune_attr |-> prune_attr,
     metric |-> metric, mode |-> mode, deadline |-> deadline,
     ls_lagrange |-> ls_lagrange,
     points_to_evaluate |-> points_to_evaluate,
     candidate_start_points |-> candidate_start_points,
     started_from_given |-> started_from_given,
     started_from_low_cost |-> started_from_low_cost,
     metric_target |-> metric_target, search_thread_pool |-> search_thread_pool,
     thread_count |-> thread_count, init_used |-> init_used,
     trial_proposed_by |-> trial_proposed_by,
     ls_bound_min |-> ls_bound_min, ls_bound_max |-> ls_bound_max,
     gs_admissible_min |-> gs_admissible_min, gs_admissible_max |-> gs_admissible_max,
     result |-> result, metric_constraint_satisfied |-> metric_constraint_satisfied,
     metric_constraint_penalty |-> metric_constraint_penalty,
     reset_times |-> reset_times, failure |-> failure]

\* the fields of record s become the next state; the constructor arguments stay
Commit(s) ==
    /\ metric' = s.metric
    /\ mode' = s.mode
    /\ ls_lagrange' = s.ls_lagrange
    /\ deadline' = s.deadline
    /\ points_to_evaluate' = s.points_to_evaluate
    /\ candidate_start_points' = s.candidate_start_points
    /\ started_from_given' = s.started_from_given
    /\ started_from_low_cost' = s.started_from_low_cost
    /\ metric_target' = s.metric_target
    /\ search_thread_pool' = s.search_thread_pool
    /\ thread_count' = s.thread_count
    /\ init_used' = s.init_used
    /\ trial_proposed_by' = s.trial_proposed_by
    /\ ls_bound_min' = s.ls_bound_min
    /\ ls_bound_max' = s.ls_bound_max
    /\ gs_admissible_min' = s.gs_admissible_min
    /\ gs_admissible_max' = s.gs_admissible_max
    /\ result' = s.result
    /\ metric_constraint_satisfied' = s.metric_constraint_satisfied
    /\ metric_constraint_penalty' = s.metric_constraint_penalty
    /\ reset_times' = s.reset_times
    /\ failure' = s.failure
    /\ UNCHANGED <<variant, config_constraints, metric_constraints, init_config, prune_attr>>

(***************************************************************************)
(* Search threads.  A thread record holds what the coordinator reads of a  *)
(* SearchThread: its best and second-best objective (sign-adjusted), its   *)
(* resource level and its converged flag.  Thread 0's statistics feed only *)
(* the priority computation, which is an input, and are not tracked.       *)
(***************************************************************************)
\* SearchThread(self._ls.mode, self._gs): the global slot
GlobalThread == [obj_best1 |-> Inf, obj_best2 |-> Inf, resource |-> 0, converged |-> FALSE]

\* SearchThread(mode, self._ls.create(config, obj, cost), cost_attr)
LocalThread(obj, resource) ==
    [obj_best1 |-> obj, obj_best2 |-> obj, resource |-> resource, converged |-> FALSE]

\* the resource levels of the local searcher are 1..MaxResource
MaxResource == 2

\* the resource level of a local thread when it is created: min_resource, or
\* none (0) without prune_attr
min_resource(s) == IF s.prune_attr THEN 1 ELSE 0

\* the resource levels a local thread may be at after a trial of its own
Resources(s) == IF s.prune_attr THEN 1..MaxResource ELSE {0}

\* SearchThread.on_trial_complete: the thread's bests follow the delivered
\* objective; conv says whether the engine reports convergence afterwards,
\* and resource is the level it is at afterwards
thread_on_trial_complete(thread, hasObj, obj, conv, resource) ==
    [thread EXCEPT
        !.obj_best1 = IF hasObj /\ obj < thread.obj_best1 THEN obj ELSE @,
        !.obj_best2 = IF hasObj /\ obj < thread.obj_best1 THEN thread.obj_best1 ELSE @,
        !.converged = @ \/ conv,
        !.resource = resource]

\* whether result r has the key self._ls.metric (the derived metric name when
\* metric constraints are configured: __init__ lines 122-124)
HasLsMetric(s, r) ==
    IF s.ls_lagrange THEN r.hasLagrange ELSE Truthy(r)

\* result[self._ls.metric]
LsMetric(s, r) == IF s.ls_lagrange THEN r.lagrange ELSE r.metric

\* the local threads of the pool (`if id`)
LocalIds(s) == DOMAIN s.search_thread_pool \ {0}

Fail(s, exception) == [s EXCEPT !.failure = exception]

(***************************************************************************)
(* Admissible regions.                                                     *)
(***************************************************************************)
\* BlendSearch._update_admissible_region: the two boxes after the update
update_admissible_region(config, admissible_min, admissible_max) ==
    LET normalized_config == normalize(config) IN
    [min |-> [key \in DOMAIN admissible_min |->
                IF normalized_config[key] > admissible_max[key]
                THEN admissible_min[key]
                ELSE IF normalized_config[key] < admissible_min[key]
                     THEN normalized_config[key]
                     ELSE admissible_min[key]],
     max |-> [key \in DOMAIN admissible_min |->
                IF normalized_config[key] > admissible_max[key]
                THEN normalized_config[key]
                ELSE admissible_max[key]]]

\* a step of the box in the wrong direction
expand_admissible_region_inwards(s) ==
    [s EXCEPT
        !.ls_bound_max = [key \in DOMAIN s.ls_bound_max |-> s.ls_bound_max[key] - STEPSIZE],
        !.ls_bound_min = [key \in DOMAIN s.ls_bound_max |-> s.ls_bound_min[key] + STEPSIZE]]

\* BlendSearch._expand_admissible_region
expand_admissible_region(s) ==
    [s EXCEPT
        !.ls_bound_max = [key \in DOMAIN s.ls_bound_max |-> s.ls_bound_max[key] + STEPSIZE],
        !.ls_bound_min = [key \in DOMAIN s.ls_bound_max |-> s.ls_bound_min[key] - STEPSIZE]]

\* self._gs_admissible_min.update(self._ls_bound_min), and the same for max
reset_admissible_region(s) ==
    [s EXCEPT
        !.gs_admissible_min = [key \in DOMAIN @ \cup DOMAIN s.ls_bound_min |->
                                 IF key \in DOMAIN s.ls_bound_min
                                 THEN s.ls_bound_min[key] ELSE @[key]],
        !.gs_admissible_max = [key \in DOMAIN @ \cup DOMAIN s.ls_bound_max |->
                                 IF key \in DOMAIN s.ls_bound_max
                                 THEN s.ls_bound_max[key] ELSE @[key]]]

(***************************************************************************)
(* Thread creation.                                                        *)
(***************************************************************************)
\* BlendSearch._create_thread
create_thread(s, config, r) ==
    IF ~HasLsMetric(s, r) THEN Fail(s, "KeyError")
    ELSE
    LET box == update_admissible_region(config, s.ls_bound_min, s.ls_bound_max) IN
    [s EXCEPT
        !.search_thread_pool =
            Put(@, s.thread_count,
                LocalThread(LsMetric(s, r) * metric_op(s.mode), min_resource(s))),
        !.thread_count = @ + 1,
        !.ls_bound_min = box.min,
        !.ls_bound_max = box.max]

\* twice the median of the values of f (np.median averages the two middle
\* values of an even number of values)
KthSmallest(f, k) ==
    CHOOSE v \in {f[i] : i \in DOMAIN f} :
        /\ Cardinality({i \in DOMAIN f : f[i] < v}) < k
        /\ Cardinality({i \in DOMAIN f : f[i] <= v}) >= k
Median2(f) ==
    LET n == Cardinality(DOMAIN f) IN
    IF n % 2 = 1 THEN 2 * KthSmallest(f, (n + 1) \div 2)
    ELSE KthSmallest(f, n \div 2) + KthSmallest(f, n \div 2 + 1)

\* the condition with a median that the result may equal
create_condition_not_strict(s, r) ==
    IF Cardinality(DOMAIN s.search_thread_pool) < 2 THEN "T"
    ELSE
    LET obj_best1 == [id \in LocalIds(s) |-> s.search_thread_pool[id].obj_best1] IN
    IF 2 * (LsMetric(s, r) * metric_op(s.mode)) <= Median2(obj_best1) THEN "T" ELSE "F"

\* BlendSearch._create_condition: "T" or "F"
BlendSearch_create_condition(s, r) ==
    IF Cardinality(DOMAIN s.search_thread_pool) < 2 THEN "T"
    ELSE
    LET obj_best1 == [id \in LocalIds(s) |-> s.search_thread_pool[id].obj_best1] IN
    IF 2 * (LsMetric(s, r) * metric_op(s.mode)) < Median2(obj_best1) THEN "T" ELSE "F"

\* `if self._candidate_start_points:` (neither None nor empty)
HasCandidates(s) ==
    /\ ~s.candidate_start_points.isNone
    /\ DOMAIN s.candidate_start_points.points # {}

\* the candidate start points with a result (`if r`)
ResolvedCandidates(s) ==
    {t \in DOMAIN s.candidate_start_points.points :
        Truthy(s.candidate_start_points.points[t])}

CandidateObj(s, t) ==
    LsMetric(s, s.candidate_start_points.points[t]) * metric_op(s.mode)

\* a creation condition that never sees the local thread
has_local_thread_unseen(s) == FALSE

\* `if len(self._search_thread_pool) == 2:` in CFO._create_condition
has_local_thread(s) == Cardinality(DOMAIN s.search_thread_pool) = 2

\* CFO._create_condition: "T", "F", or the exception it raises
CFO_create_condition(s, r) ==
    IF s.points_to_evaluate # <<>> THEN "F"
    ELSE IF has_local_thread(s) THEN "F"
    ELSE IF HasCandidates(s) /\ s.thread_count = 1
    THEN IF \E t \in ResolvedCandidates(s) :
                ~HasLsMetric(s, s.candidate_start_points.points[t])
         THEN "KeyError"
         ELSE IF ResolvedCandidates(s) = {} THEN "ValueError"   \* min() of nothing
         ELSE IF \A t \in ResolvedCandidates(s) :
                    LsMetric(s, r) * metric_op(s.mode) <= CandidateObj(s, t)
              THEN "T" ELSE "F"
    ELSE "T"

create_condition(s, r) ==
    IF s.variant = "CFO" THEN CFO_create_condition(s, r)
    ELSE BlendSearch_create_condition(s, r)

\* BlendSearch._create_thread_from_best_candidate: the first candidate (in
\* insertion order, which is the order of the trial ids) of least objective
create_thread_from_best_candidate(s) ==
    IF \E t \in ResolvedCandidates(s) :
            ~HasLsMetric(s, s.candidate_start_points.points[t])
    THEN Fail(s, "KeyError")
    ELSE IF ResolvedCandidates(s) = {} THEN s
    ELSE
    LET best_trial_id ==
            CHOOSE t \in ResolvedCandidates(s) :
                \A u \in ResolvedCandidates(s) :
                    \/ CandidateObj(s, t) < CandidateObj(s, u)
                    \/ CandidateObj(s, t) = CandidateObj(s, u) /\ t <= u
        r == s.candidate_start_points.points[best_trial_id]
        s1 == [s EXCEPT !.started_from_given = "true",
                        !.candidate_start_points.points = Remove(@, best_trial_id)]
    IN create_thread(s1, r.config, r)

(***************************************************************************)
(* Pruning.                                                                *)
(***************************************************************************)
\* the domination test without the resource levels
inferior_whatever_resource(t1, t2, reach) ==
    IF t1.obj_best1 < t2.obj_best2 THEN FALSE ELSE reach

\* BlendSearch._inferior on the two threads' fields; reach is t2.reach(t1)
inferior(t1, t2, reach) ==
    IF t1.obj_best1 < t2.obj_best2 THEN FALSE
    ELSE IF t1.resource # 0 /\ t1.resource < t2.resource THEN FALSE
    ELSE IF reach THEN TRUE
    ELSE FALSE

\* the reach relations a pruning pass for thread_id may observe:
\* reach[<<a, b>>] is thread a's reach(thread b)
ReachChoices(s, thread_id) ==
    [{p \in LocalIds(s) \X LocalIds(s) :
        p[1] # p[2] /\ (p[1] = thread_id \/ p[2] = thread_id)} -> BOOLEAN]

\* the marking without the second scan of lines 360-364
marked_others_only(s, thread_id, reach) ==
    LET pool == s.search_thread_pool
        others == LocalIds(s) \ {thread_id}
        inf(id1, id2) == inferior(pool[id1], pool[id2], reach[<<id2, id1>>])
    IN  {id \in others : inf(id, thread_id)}

\* lines 355-364: the threads the two scans of the pool mark for deletion
marked_by_scans(s, thread_id, reach) ==
    LET pool == s.search_thread_pool
        others == LocalIds(s) \ {thread_id}
        inf(id1, id2) == inferior(pool[id1], pool[id2], reach[<<id2, id1>>])
        todelete1 == {id \in others : inf(id, thread_id)}
        todelete2 == IF \E id \in others : inf(thread_id, id) THEN {thread_id} ELSE {}
    IN  todelete1 \cup todelete2

\* BlendSearch._clean
clean(s, thread_id, reach) ==
    IF thread_id = 0 THEN Fail(s, "AssertionError")
    ELSE
    LET pool == s.search_thread_pool
        converged == pool[thread_id].converged
        s1 == IF converged THEN expand_admissible_region(s) ELSE s
        unset1 == converged /\ HasCandidates(s1) /\ s1.started_from_given = "unset"
        obj == pool[thread_id].obj_best1
        dropWorse == converged /\ HasCandidates(s1) /\ s1.started_from_given # "true"
        badKey == dropWorse /\ \E t \in ResolvedCandidates(s1) :
                        ~HasLsMetric(s1, s1.candidate_start_points.points[t])
        worse == {t \in ResolvedCandidates(s1) : CandidateObj(s1, t) >= obj}
        s2 == IF dropWorse
              THEN [s1 EXCEPT !.candidate_start_points.points =
                        [t \in DOMAIN @ \ worse |-> @[t]]]
              ELSE s1
        unset2 == converged /\ HasCandidates(s2) /\ s2.started_from_low_cost = "unset"
        create_new == converged /\ HasCandidates(s2) /\ s2.started_from_low_cost = "true"
        todelete == marked_by_scans(s, thread_id, reach)
                        \cup (IF converged THEN {thread_id} ELSE {})
        s3 == [s2 EXCEPT !.search_thread_pool = [id \in DOMAIN @ \ todelete |-> @[id]]]
    IN  IF unset1 THEN Fail(s1, "AttributeError")
        ELSE IF badKey THEN Fail(s1, "KeyError")
        ELSE IF unset2 THEN Fail(s2, "AttributeError")
        ELSE IF create_new THEN create_thread_from_best_candidate(s3)
        ELSE s3

(***************************************************************************)
(* on_trial_complete.                                                      *)
(***************************************************************************)
\* a weight that grows without the cap
grow_penalty_uncapped(penalty, i, violation) ==
    [penalty EXCEPT ![i] = @ + violation]

\* lines 270-271: the weight of constraint i grows while it is below the cap
grow_penalty(penalty, i, violation) ==
    IF penalty[i] < Penalty
    THEN [penalty EXCEPT ![i] = @ + violation]
    ELSE penalty

\* lines 258-271, from constraint i on: acc is [objective, penalty, satisfied]
RECURSIVE penalize(_, _, _, _)
penalize(s, r, i, acc) ==
    IF i > Len(s.metric_constraints) THEN acc
    ELSE
    LET constraint == s.metric_constraints[i]
        value == r.cons[constraint.metric]
        sign_op == IF constraint.sign = "<=" THEN 1 ELSE -1
        violation == (value - constraint.threshold) * sign_op
    IN  IF value # Absent /\ value # 0 /\ violation > 0      \* `if value:`
        THEN penalize(s, r, i + 1,
                [objective |-> acc.objective
                                + acc.penalty[i] * violation * metric_op(s.mode),
                 penalty |-> grow_penalty(acc.penalty, i, violation),
                 satisfied |-> FALSE])
        ELSE penalize(s, r, i + 1, acc)

\* lines 254-276: [s, result, satisfied], result being the caller's record
\* with the derived metric set
account_constraints(s, r, error) ==
    IF Truthy(r) /\ ~error /\ s.metric_constraints # <<>>
    THEN LET acc == penalize(s, r, 1, [objective |-> r.metric,
                                       penalty |-> s.metric_constraint_penalty,
                                       satisfied |-> TRUE])
         IN [s |-> [s EXCEPT
                      !.metric_constraint_penalty =
                          IF acc.satisfied /\ ~s.metric_constraint_satisfied
                          THEN [i \in 1..Len(s.metric_constraints) |-> 1]
                          ELSE acc.penalty,
                      !.metric_constraint_satisfied = @ \/ acc.satisfied],
             result |-> [r EXCEPT !.hasLagrange = TRUE, !.lagrange = acc.objective],
             satisfied |-> acc.satisfied]
    ELSE [s |-> s, result |-> r, satisfied |-> TRUE]

\* lines 277-281: the result goes to the owning thread if it is in the pool
deliver(s, trial_id, r, error, conv, resource) ==
    LET thread_id == IF trial_id \in DOMAIN s.trial_proposed_by
                     THEN s.trial_proposed_by[trial_id] ELSE NoneId
    IN  IF thread_id \in DOMAIN s.search_thread_pool
        THEN [s EXCEPT
                !.search_thread_pool[thread_id] =
                    IF thread_id = 0 THEN @
                    ELSE thread_on_trial_complete(@,
                            Truthy(r) /\ ~error /\ HasLsMetric(s, r),
                            LsMetric(s, r) * metric_op(s.mode), conv, resource),
                !.trial_proposed_by = Remove(@, trial_id)]
        ELSE s

\* lines 295-305: the thread creator
spawn(s, trial_id, config, r) ==
    LET given == HasCandidates(s) /\ trial_id \in DOMAIN s.candidate_start_points.points
        s1 == IF given
              THEN [s EXCEPT !.started_from_given = "true",
                             !.candidate_start_points.points = Remove(@, trial_id)]
              ELSE [s EXCEPT !.started_from_given = "false",
                             !.started_from_low_cost = "true"]
    IN create_thread(s1, config, r)

\* the target following the latest objective
update_target_to_latest(s, objective) == [s EXCEPT !.metric_target = objective]

\* lines 292-294: update target metric if improved
update_target(s, objective) ==
    IF (objective - s.metric_target) * metric_op(s.mode) < 0
    THEN [s EXCEPT !.metric_target = objective] ELSE s

\* lines 282-311: [s, thread_id]
record_result(s, trial_id, r, error, thread_id, satisfied) ==
    LET config == r.config
        sig == config_signature(config)
    IN
    IF error
    THEN [s |-> IF sig \in DOMAIN s.result
                THEN [s EXCEPT !.result = Remove(@, sig)]
                ELSE Fail(s, "KeyError"),
          thread_id |-> thread_id]
    ELSE
    LET s1 == [s EXCEPT !.result = Put(@, sig, r)]
        objective == LsMetric(s1, r)
        s2 == update_target(s1, objective)
        cond == IF thread_id = 0 /\ satisfied THEN create_condition(s2, r) ELSE "F"
    IN  IF ~HasLsMetric(s1, r) THEN [s |-> Fail(s1, "KeyError"), thread_id |-> thread_id]
        ELSE IF cond \notin {"T", "F"} THEN [s |-> Fail(s2, cond), thread_id |-> thread_id]
        ELSE IF cond = "T"
        THEN LET s3 == spawn(s2, trial_id, config, r) IN
             [s |-> IF s3.failure # "none" THEN s3 ELSE reset_admissible_region(s3),
              thread_id |-> s2.thread_count]
        ELSE IF thread_id > 0 /\ ~s2.metric_constraint_satisfied
        THEN [s |-> reset_admissible_region(expand_admissible_region(s2)),
              thread_id |-> thread_id]
        ELSE [s |-> reset_admissible_region(s2), thread_id |-> thread_id]

\* BlendSearch.on_trial_complete: the set of states it may end in (the owning
\* thread may report convergence, and the pruning pass observes reach)
BlendSearch_on_trial_complete(s, trial_id, r0, error) ==
    LET a == account_constraints(s, r0, error)
        thread_id0 == IF trial_id \in DOMAIN s.trial_proposed_by
                      THEN s.trial_proposed_by[trial_id] ELSE NoneId
        convs == IF thread_id0 \in LocalIds(s) THEN BOOLEAN ELSE {FALSE}
        levels == IF thread_id0 \in LocalIds(s) THEN Resources(s) ELSE {0}
    IN UNION {
        LET s1 == deliver(a.s, trial_id, a.result, error, conv, resource)
            b == IF Truthy(a.result)
                 THEN record_result(s1, trial_id, a.result, error, thread_id0, a.satisfied)
                 ELSE [s |-> s1, thread_id |-> thread_id0]
        IN  IF b.s.failure # "none" THEN {b.s}
            ELSE IF b.thread_id > 0 /\ b.thread_id \in DOMAIN b.s.search_thread_pool
            THEN {clean(b.s, b.thread_id, reach) : reach \in ReachChoices(b.s, b.thread_id)}
            ELSE {b.s}
        : conv \in convs, resource \in levels }

\* CFO.on_trial_complete
CFO_on_trial_complete(s, trial_id, r0, error) ==
    LET r == account_constraints(s, r0, error).result IN
    { IF s1.failure # "none" THEN s1
      ELSE IF HasCandidates(s1) /\ trial_id \in DOMAIN s1.candidate_start_points.points
      THEN LET s2 == [s1 EXCEPT !.candidate_start_points.points[trial_id] = r] IN
           IF Cardinality(DOMAIN s2.search_thread_pool) < 2 /\ s2.points_to_evaluate = <<>>
           THEN create_thread_from_best_candidate(s2)
           ELSE s2
      ELSE s1
      : s1 \in BlendSearch_on_trial_complete(s, trial_id, r0, error) }

on_trial_complete(s, trial_id, r, error) ==
    IF s.variant = "CFO" THEN CFO_on_trial_complete(s, trial_id, r, error)
    ELSE BlendSearch_on_trial_complete(s, trial_id, r, error)

(***************************************************************************)
(* suggest.  An outcome is [s, has, config]: the coordinator after the     *)
(* call and the configuration returned (has = FALSE: None).                *)
(***************************************************************************)
Out(s, config) == [s |-> s, has |-> TRUE, config |-> config]
OutNone(s) == [s |-> s, has |-> FALSE, config |-> DummyConfig]

\* thread priorities per unit of min_eci, and the threads' estimated costs,
\* are 0..MaxPrio
MaxPrio == 1

\* the values of time.time()
\* set_search_properties is called at most MaxPropertyCalls times
MaxPropertyCalls == 1

Times == 0..MaxTime

\* a remaining budget that is not floored
remaining_budget_unfloored(s, now) ==
    IF s.deadline = Inf THEN Inf ELSE s.deadline - now

\* lines 554-558: the remaining budget, floored at 0
remaining_budget(s, now) ==
    LET min_eci == IF s.deadline = Inf THEN Inf ELSE s.deadline - now IN
    IF min_eci <= 0 THEN 0 ELSE min_eci

\* lines 563-566: min_eci after the threads' estimated costs are folded in;
\* the smallest of them is eci
fold_eci(min_eci, eci) == IF eci < min_eci THEN eci ELSE min_eci

\* SearchThread.update_priority(min_eci): the priority grows with min_eci
update_priority(priority, min_eci) == priority * min_eci

\* what the threads expose to lines 553-568: a priority per unit of min_eci
\* for every thread and can_suggest for every local thread
Looks(s) ==
    [priority : [DOMAIN s.search_thread_pool -> 0..MaxPrio],
     can_suggest : [LocalIds(s) -> BOOLEAN]]

\* the step with a top choice that a thread of equal priority replaces
select_step_last_of_equal(acc, thread_id, priority) ==
    LET a1 == IF priority >= acc.priority1
              THEN [acc EXCEPT !.priority1 = priority, !.top_thread_id = thread_id]
              ELSE acc
    IN  IF priority > a1.priority2 \/ a1.backup_thread_id = 0
        THEN [a1 EXCEPT !.priority2 = priority, !.backup_thread_id = thread_id]
        ELSE a1

\* lines 579-585: one local thread with can_suggest true
select_step(acc, thread_id, priority) ==
    LET a1 == IF priority > acc.priority1
              THEN [acc EXCEPT !.priority1 = priority, !.top_thread_id = thread_id]
              ELSE acc
    IN  IF priority > a1.priority2 \/ a1.backup_thread_id = 0
        THEN [a1 EXCEPT !.priority2 = priority, !.backup_thread_id = thread_id]
        ELSE a1

\* lines 572-585, for the threads from id on in insertion order (a thread's id
\* is the value of the thread counter when it was inserted)
RECURSIVE select_scan(_, _, _, _)
select_scan(s, id, look, acc) ==
    IF id >= s.thread_count THEN acc
    ELSE IF id \in LocalIds(s) /\ look.can_suggest[id]
    THEN select_scan(s, id + 1, look, select_step(acc, id, look.priority[id]))
    ELSE select_scan(s, id + 1, look, acc)

\* BlendSearch._select_thread for one outcome of the priority update
select_with(s, look) ==
    select_scan(s, 0, look,
        [top_thread_id |-> 0, backup_thread_id |-> 0,
         priority1 |-> look.priority[0], priority2 |-> look.priority[0]])

\* lines 563-568: the threads after update_priority, the least estimated cost
\* among them being eci
prioritized(s, now, look, eci) ==
    LET min_eci == fold_eci(remaining_budget(s, now), eci) IN
    [look EXCEPT !.priority =
        [id \in DOMAIN look.priority |-> update_priority(look.priority[id], min_eci)]]

\* BlendSearch._select_thread at time now: the (top, backup) pairs it may return
BlendSearch_select_thread(s, now) ==
    {LET selected == select_with(s, prioritized(s, now, look, eci)) IN
     [ok |-> TRUE, top |-> selected.top_thread_id, backup |-> selected.backup_thread_id]
        : look \in Looks(s), eci \in 0..MaxPrio}

\* CFO._select_thread: the first local thread, twice; None without one
CFO_select_thread(s) ==
    IF LocalIds(s) = {} THEN {[ok |-> FALSE, top |-> 0, backup |-> 0]}
    ELSE LET key == CHOOSE id \in LocalIds(s) : \A other \in LocalIds(s) : id <= other
         IN {[ok |-> TRUE, top |-> key, backup |-> key]}

select_thread(s, now) ==
    IF s.variant = "CFO" THEN CFO_select_thread(s) ELSE BlendSearch_select_thread(s, now)

\* SearchThread.suggest of thread id: a configuration or None, and whether
\* the engine reports convergence afterwards
ThreadSuggestions(id) ==
    LET convs == IF id = 0 THEN {FALSE} ELSE BOOLEAN IN
    {[has |-> TRUE, config |-> c, conv |-> cv] : c \in Configs, cv \in convs}
    \cup {[has |-> FALSE, config |-> DummyConfig, conv |-> cv] : cv \in convs}

Converge(s, id, conv) ==
    [s EXCEPT !.search_thread_pool[id].converged = @ \/ conv]

\* FLOW2.complete_config: the missing keys are sampled; the init
\* configuration is otherwise taken as it is the first time and perturbed at
\* random afterwards.  [config, reset_times]
Completions(partial_config) ==
    {c \in Configs : \A k \in DOMAIN partial_config : c[k] = partial_config[k]}
complete_config(s, partial_config) ==
    IF partial_config = s.init_config
    THEN IF s.reset_times = 0
         THEN {[config |-> c, reset_times |-> 1] : c \in Completions(partial_config)}
         ELSE {[config |-> c, reset_times |-> 1] : c \in Configs}
    ELSE {[config |-> c, reset_times |-> s.reset_times] : c \in Completions(partial_config)}

\* func(config) of a config constraint: the constrained quantity is the
\* value of the first dimension
ConstraintValue(config) == config[DimSeq[1]]

\* lines 526-527
Violates(constraint, config) ==
    \/ constraint.sign = "<=" /\ ConstraintValue(config) > constraint.threshold
    \/ constraint.sign = ">=" /\ ConstraintValue(config) < constraint.threshold

\* lines 528-531
SynthResult(s) ==
    [kind |-> "synth", config |-> DummyConfig, metric |-> Inf * metric_op(s.mode),
     cons |-> NoCons, hasLagrange |-> FALSE, lagrange |-> 0, cost |-> SynthCost]

\* BlendSearch._should_skip: the set of [s, skip] it may end in
should_skip(s, choice, trial_id, has, config) ==
    IF ~has THEN {[s |-> s, skip |-> TRUE]}
    ELSE
    LET config_signature_ == config_signature(config)
        seen == config_signature_ \in DOMAIN s.result
        violated == /\ ~seen
                    /\ \E i \in 1..Len(s.config_constraints) :
                            Violates(s.config_constraints[i], config)
        s1 == IF violated
              THEN [s EXCEPT !.result = Put(@, config_signature_, SynthResult(s))]
              ELSE s
        exists == seen \/ violated
    IN
    IF ~exists THEN {[s |-> s1, skip |-> FALSE]}
    ELSE IF choice >= 0 /\ Truthy(s1.result[config_signature_])
    THEN LET r == s1.result[config_signature_] IN
         IF choice = 0 THEN {[s |-> s1, skip |-> TRUE]}
         ELSE UNION {
                LET s2 == [s1 EXCEPT !.search_thread_pool[choice] =
                            thread_on_trial_complete(@, HasLsMetric(s1, r),
                                LsMetric(s1, r) * metric_op(s1.mode), conv, resource)]
                IN {[s |-> clean(s2, choice, reach), skip |-> TRUE] :
                        reach \in ReachChoices(s2, choice)}
                : conv \in BOOLEAN, resource \in Resources(s1) }
    ELSE {[s |-> s1, skip |-> TRUE]}

\* the validator without the slack of STEPSIZE around the box
valid_without_slack(s, config) ==
    \A key \in DOMAIN s.gs_admissible_min :
        key \in DOMAIN config =>
            /\ normalize(config)[key] >= s.gs_admissible_min[key]
            /\ normalize(config)[key] <= s.gs_admissible_max[key]

\* BlendSearch._valid
valid(s, config) ==
    LET normalized_config == normalize(config) IN
    \A key \in DOMAIN s.gs_admissible_min :
        key \in DOMAIN config =>
            ~ \/ normalized_config[key] + STEPSIZE < s.gs_admissible_min[key]
              \/ normalized_config[key] > s.gs_admissible_max[key] + STEPSIZE

\* lines 480-492: the region update and the placeholder
finish(s, choice, config) ==
    LET s1 == IF choice = 0
              THEN LET box == update_admissible_region(
                                config, s.gs_admissible_min, s.gs_admissible_max)
                   IN [s EXCEPT !.gs_admissible_min = box.min,
                                !.gs_admissible_max = box.max]
              ELSE LET box == update_admissible_region(
                                config, s.ls_bound_min, s.ls_bound_max)
                   IN reset_admissible_region(
                        [s EXCEPT !.ls_bound_min = box.min, !.ls_bound_max = box.max])
    IN Out([s1 EXCEPT !.result = Put(@, config_signature(config), EmptyResult)], config)

\* lines 463-479: who owns the trial
place(s, trial_id, choice, backup, config) ==
    IF choice # 0 \/ valid(s, config)
    THEN {finish([s EXCEPT !.trial_proposed_by = Put(@, trial_id, choice)], choice, config)}
    ELSE IF choice = backup
    THEN {finish([s EXCEPT !.trial_proposed_by = Put(@, trial_id, choice),
                           !.reset_times = cc.reset_times], choice, cc.config)
            : cc \in complete_config(s, s.init_config)}
    ELSE UNION {
            { IF k.skip THEN OutNone(k.s)
              ELSE finish([k.s EXCEPT !.trial_proposed_by = Put(@, trial_id, backup)],
                          backup, sg.config)
              : k \in should_skip(Converge(s, backup, sg.conv), backup, trial_id,
                                  sg.has, sg.config) }
            : sg \in ThreadSuggestions(backup) }

\* lines 452-462: the skip check and the random-sample fallback
after_suggest(s, trial_id, choice, backup, sg) ==
    UNION {
        IF ~k.skip THEN place(k.s, trial_id, choice, backup, sg.config)
        ELSE IF choice # 0 THEN {OutNone(k.s)}
        ELSE UNION {
                UNION { IF k2.skip THEN {OutNone(k2.s)}
                        ELSE place(k2.s, trial_id, choice, backup, random)
                        : k2 \in should_skip(k.s, -1, trial_id, TRUE, random) }
                : random \in Configs }
        : k \in should_skip(s, choice, trial_id, sg.has, sg.config) }

\* lines 441-492: steady-state mode
steady(s, trial_id, now) ==
    UNION {
        IF ~sel.ok THEN {OutNone(Fail(s, "TypeError"))}
        ELSE IF sel.top < 0 THEN {OutNone(s)}      \* timeout
        ELSE UNION {
            LET s1 == Converge(s, sel.top, sg.conv) IN
            IF sel.top # 0 /\ ~sg.has
            THEN {OutNone(
                    IF s1.search_thread_pool[sel.top].converged
                    THEN [expand_admissible_region(s1) EXCEPT
                            !.search_thread_pool = Remove(@, sel.top)]
                    ELSE s1)}
            ELSE after_suggest(s1, trial_id, sel.top, sel.backup, sg)
            : sg \in ThreadSuggestions(sel.top) }
        : sel \in select_thread(s, now) }

\* lines 494-510: bootstrap mode
bootstrap(s, trial_id) ==
    LET given == s.points_to_evaluate # <<>>
        s1 == IF ~s.candidate_start_points.isNone /\ given
              THEN [s EXCEPT !.candidate_start_points.points = Put(@, trial_id, NoResult)]
              ELSE s
        init_config_ == IF given THEN Head(s.points_to_evaluate) ELSE s.init_config
        s2 == IF given THEN [s1 EXCEPT !.points_to_evaluate = Tail(@)] ELSE s1
    IN { LET s3 == [s2 EXCEPT !.reset_times = cc.reset_times]
             config_signature_ == config_signature(cc.config)
         IN IF config_signature_ \in DOMAIN s3.result
            THEN OutNone(s3)
            ELSE Out([s3 EXCEPT
                        !.result = Put(@, config_signature_, EmptyResult),
                        !.init_used = TRUE,
                        !.trial_proposed_by = Put(@, trial_id, 0)], cc.config)
         : cc \in complete_config(s2, init_config_) }

\* BlendSearch.suggest
BlendSearch_suggest(s, trial_id, now) ==
    IF s.init_used /\ s.points_to_evaluate = <<>>
    THEN steady(s, trial_id, now)
    ELSE bootstrap(s, trial_id)

\* CFO.suggest without the restart of lines 694-697
CFO_suggest_without_restart(s, trial_id, now) ==
    IF ~(Cardinality(DOMAIN s.search_thread_pool) < 3)
    THEN {OutNone(Fail(s, "AssertionError"))}
    ELSE BlendSearch_suggest(s, trial_id, now)

\* CFO.suggest
CFO_suggest(s, trial_id, now) ==
    IF ~(Cardinality(DOMAIN s.search_thread_pool) < 3)
    THEN {OutNone(Fail(s, "AssertionError"))}
    ELSE IF Cardinality(DOMAIN s.search_thread_pool) < 2
    THEN BlendSearch_suggest([s EXCEPT !.init_used = FALSE], trial_id, now)
    ELSE BlendSearch_suggest(s, trial_id, now)

suggest(s, trial_id, now) ==
    IF s.variant = "CFO" THEN CFO_suggest(s, trial_id, now)
    ELSE BlendSearch_suggest(s, trial_id, now)

(***************************************************************************)
(* set_search_properties.                                                  *)
(***************************************************************************)
\* the metric names a caller may pass
Metrics == {"loss", "acc"}

\* config['time_budget_s'] = None
NoneValue == -2

\* the config argument: its time_budget_s (a budget, None, or no such key)
\* and its metric_target (a target, or no such key); without either key it
\* stands for None and for {}
SearchConfigs ==
    [time_budget_s : {Absent, NoneValue} \cup Times,
     metric_target : {Absent} \cup 0..MaxObj]

\* BlendSearch._init_search
init_search(s) ==
    [s EXCEPT
        !.metric_target = Inf * metric_op(s.mode),
        !.search_thread_pool = [id \in {0} |-> GlobalThread],
        !.thread_count = 1,
        !.init_used = FALSE,
        !.trial_proposed_by = EmptyMap,
        !.ls_bound_min = normalize(s.init_config),
        !.ls_bound_max = normalize(s.init_config),
        !.gs_admissible_min = normalize(s.init_config),
        !.gs_admissible_max = normalize(s.init_config),
        !.result = EmptyMap,
        !.deadline = Inf,
        !.metric_constraint_satisfied = (s.metric_constraints = <<>>),
        !.metric_constraint_penalty = [i \in 1..Len(s.metric_constraints) |-> Penalty]]

\* the deadline and the metric target are taken from config whatever it holds
apply_config_unconditional(s, config, now) ==
    [s EXCEPT !.deadline = config.time_budget_s + now,
              !.metric_target = config.metric_target]

\* lines 175-182: the time budget and the metric target of config
apply_config(s, config, now) ==
    LET s1 == IF config.time_budget_s \notin {Absent, NoneValue}
              THEN [s EXCEPT !.deadline = config.time_budget_s + now]
              ELSE s
    IN  IF config.metric_target # Absent
        THEN [s1 EXCEPT !.metric_target = config.metric_target]
        ELSE s1

\* self._ls.set_search_properties(metric, mode): the local searcher takes the
\* metric it is handed, which carries the lagrange suffix only if the metric
\* changed (lines 155-157), and keeps its own when handed None
ls_set_search_properties(s, metric_, metric_changed) ==
    IF metric_ = "none" THEN s
    ELSE [s EXCEPT !.ls_lagrange = metric_changed /\ s.metric_constraints # <<>>]

\* BlendSearch.set_search_properties, the search space being set by the
\* constructor: [s, ret]
set_search_properties(s, metric_, mode_, config, now) ==
    LET metric_changed == metric_ # "none" /\ s.metric # metric_
        mode_changed == mode_ # "none" /\ s.mode # mode_
        s1 == IF metric_changed THEN [s EXCEPT !.metric = metric_] ELSE s
        s2 == IF mode_changed THEN [s1 EXCEPT !.mode = mode_] ELSE s1
        s3 == IF metric_changed \/ mode_changed
              THEN init_search(ls_set_search_properties(s2, metric_, metric_changed))
              ELSE s2
    IN  [s |-> apply_config(s3, config, now), ret |-> TRUE]

(***************************************************************************)
(* on_trial_result.                                                        *)
(***************************************************************************)
\* every thread id passes for one of the pool
in_pool_unchecked(s, thread_id) == TRUE

\* line 431: thread_id in self._search_thread_pool
in_pool(s, thread_id) == thread_id \in DOMAIN s.search_thread_pool

\* lines 433-434: the result handed on, the primary metric copied under the
\* lagrange key when metric constraints are configured
partial_result(s, r) ==
    IF Truthy(r) /\ s.metric_constraints # <<>>
    THEN [r EXCEPT !.hasLagrange = TRUE, !.lagrange = r.metric]
    ELSE r

\* BlendSearch.on_trial_result: the coordinator afterwards and the calls of
\* SearchThread.on_trial_result it made, as [thread_id, result]
on_trial_result(s, trial_id, r) ==
    IF trial_id \notin DOMAIN s.trial_proposed_by
    THEN [s |-> s, delivered |-> {}]
    ELSE LET thread_id == s.trial_proposed_by[trial_id] IN
         IF ~in_pool(s, thread_id)
         THEN [s |-> s, delivered |-> {}]
         ELSE [s |-> s,
               delivered |-> {[thread_id |-> thread_id, result |-> partial_result(s, r)]}]

(***************************************************************************)
(* save and restore.                                                       *)
(***************************************************************************)
\* BlendSearch.save: the pickled coordinator, all of its fields
save(s) == s

\* the coordinator restore is called on, constructed with the arguments the
\* saved one was constructed with: lines 135-141 set _started_from_low_cost,
\* under CFO with more than one initial point, and never _started_from_given;
\* its other fields are those restore overwrites
restore_target(state) ==
    [state EXCEPT
        !.started_from_given = "unset",
        !.started_from_low_cost =
            IF state.candidate_start_points.isNone THEN "unset"
            ELSE IF state.init_config = EmptyMap THEN "true" ELSE "false",
        !.failure = "none"]

\* `if self._candidate_start_points`: neither None nor {}
HasCandidateStartPoints(s) ==
    ~s.candidate_start_points.isNone /\ DOMAIN s.candidate_start_points.points # {}

\* BlendSearch.restore into self_ of the pickled coordinator state
restore(self_, state) ==
    LET s1 == [state EXCEPT
                !.started_from_given = self_.started_from_given,
                !.started_from_low_cost = self_.started_from_low_cost,
                !.failure = self_.failure]
    IN  IF ~HasCandidateStartPoints(s1) THEN s1
        ELSE IF state.started_from_given = "unset" THEN Fail(s1, "AttributeError")
        ELSE [s1 EXCEPT !.started_from_given = state.started_from_given,
                        !.started_from_low_cost = state.started_from_low_cost]

(***************************************************************************)
(* The trial runner and the actions.                                       *)
(***************************************************************************)
\* what a trial may report for the constrained metrics
ConsReports ==
    IF metric_constraints = <<>> THEN {NoCons}
    ELSE [ConsMetrics -> {Absent} \cup 0..MaxCons]

\* the results on_trial_complete may be called with for a trial that runs
\* configuration config: None, {}, or a result carrying the configuration
Reports(config) ==
    {NoResult, EmptyResult}
    \cup {FullResult(config, value, cons) : value \in 0..MaxObj, cons \in ConsReports}

\* the times of a call that is past the deadline (late) or not, one for every
\* remaining budget
CallTimes(late) ==
    LET times == {now \in Times : (now >= deadline) = late} IN
    {now \in times :
        \A earlier \in times :
            earlier < now => remaining_budget(Self, earlier) # remaining_budget(Self, now)}

\* suggest(trial_id) with the next fresh trial id, at a time that is past the
\* deadline (late) or not
Suggest ==
    \E trial_id \in Trials, late \in BOOLEAN :
        /\ failure = "none"
        /\ trials[trial_id].status = "new"
        /\ \A other \in Trials : other < trial_id => trials[other].status # "new"
        /\ \E o \in UNION {suggest(Self, trial_id, now) : now \in CallTimes(late)} :
            /\ Commit(o.s)
            /\ trials' = [trials EXCEPT ![trial_id] =
                            [status |-> IF o.has THEN "running" ELSE "absent",
                             config |-> o.config,
                             late |-> o.has /\ late]]
            /\ UNCHANGED property_calls

\* the intermediate results on_trial_result is called with: None, or the
\* least objective without the constrained metrics
IntermediateReports(config) == {NoResult, FullResult(config, 0, NoCons)}

\* on_trial_result(trial_id, result) for a running trial
OnTrialResult ==
    \E trial_id \in Trials :
        /\ failure = "none"
        /\ trials[trial_id].status = "running"
        /\ \E r \in IntermediateReports(trials[trial_id].config) :
            /\ Commit(on_trial_result(Self, trial_id, r).s)
            /\ UNCHANGED <<trials, property_calls>>

\* on_trial_complete(trial_id, result, error) for a running trial
OnTrialComplete ==
    \E trial_id \in Trials, error \in BOOLEAN :
        /\ failure = "none"
        /\ trials[trial_id].status = "running"
        /\ \E r \in Reports(trials[trial_id].config) :
           \E s \in on_trial_complete(Self, trial_id, r, error) :
            /\ Commit(s)
            /\ trials' = [trials EXCEPT ![trial_id] =
                            [status |-> IF error THEN "failed" ELSE "done",
                             config |-> DummyConfig, late |-> FALSE]]
            /\ UNCHANGED property_calls

Next == Suggest \/ OnTrialResult \/ OnTrialComplete

\* set_search_properties(metric, mode, config) at some time
SetSearchProperties ==
    \E metric_ \in {"none"} \cup Metrics, mode_ \in {"none", "min", "max"},
       config \in SearchConfigs, now \in Times :
        /\ failure = "none"
        /\ property_calls < MaxPropertyCalls
        /\ Commit(set_search_properties(Self, metric_, mode_, config, now).s)
        /\ property_calls' = property_calls + 1
        /\ UNCHANGED trials

NextProperties == Next \/ SetSearchProperties

\* save(path), then restore(path) on a coordinator constructed anew, which
\* takes the place of the saved one
SaveRestore ==
    /\ failure = "none"
    /\ Commit(restore(restore_target(Self), save(Self)))
    /\ UNCHANGED <<trials, property_calls>>

NextCheckpoint == Next \/ SaveRestore

(***************************************************************************)
(* Construction: __init__ and _init_search.                                *)
(***************************************************************************)
Point(v) == [k \in Dims |-> v]

InitFrom(name, mode_, config_constraints_, metric_constraints_, low_cost, points, prune_) ==
    /\ variant = name
    /\ prune_attr = prune_
    /\ metric = "loss"
    /\ property_calls = 0
    /\ ls_lagrange = (metric_constraints_ # <<>>)
    /\ mode = mode_
    /\ deadline = Inf
    /\ config_constraints = config_constraints_
    /\ metric_constraints = metric_constraints_
    /\ init_config = low_cost
    /\ points_to_evaluate = points
    /\ candidate_start_points =
            [isNone |-> ~(name = "CFO" /\ Len(points) > 1), points |-> EmptyMap]
    /\ started_from_given = "unset"
    /\ started_from_low_cost =
            IF name = "CFO" /\ Len(points) > 1
            THEN (IF low_cost = EmptyMap THEN "true" ELSE "false")
            ELSE "unset"
    /\ metric_target = Inf * metric_op(mode_)
    /\ search_thread_pool = [id \in {0} |-> GlobalThread]
    /\ thread_count = 1
    /\ init_used = FALSE
    /\ trial_proposed_by = EmptyMap
    /\ ls_bound_min = normalize(low_cost)
    /\ ls_bound_max = normalize(low_cost)
    /\ gs_admissible_min = normalize(low_cost)
    /\ gs_admissible_max = normalize(low_cost)
    /\ result = EmptyMap
    /\ metric_constraint_satisfied = (metric_constraints_ = <<>>)
    /\ metric_constraint_penalty =
            [i \in 1..Len(metric_constraints_) |-> Penalty]
    /\ reset_times = 0
    /\ failure = "none"
    /\ trials = [t \in Trials |->
                    [status |-> "new", config |-> DummyConfig, late |-> FALSE]]

\* construction without prune_attr
InitWith(name, mode_, config_constraints_, metric_constraints_, low_cost, points) ==
    InitFrom(name, mode_, config_constraints_, metric_constraints_, low_cost, points, FALSE)

\* the default coordinator: minimizing under the config constraint x <= 1
\* with the user's initial point x = 2, or maximizing without constraints
\* and without initial points; the low-cost configuration is x = 0
Init ==
    \/ InitWith("BlendSearch", "min", <<[sign |-> "<=", threshold |-> 1]>>, <<>>,
                Point(0), <<Point(2)>>)
    \/ InitWith("BlendSearch", "max", <<>>, <<>>, Point(0), <<>>)

Spec == Init /\ [][Next]_vars

\* the default coordinator with metric constraints on the reported metric m:
\* maximizing under m >= 1, or minimizing under m <= 0 and m <= 1
InitMetricConstraints ==
    \/ InitWith("BlendSearch", "max", <<>>,
                <<[metric |-> "m", sign |-> ">=", threshold |-> 1]>>, Point(0), <<>>)
    \/ InitWith("BlendSearch", "min", <<>>,
                <<[metric |-> "m", sign |-> "<=", threshold |-> 0],
                  [metric |-> "m", sign |-> "<=", threshold |-> 1]>>, Point(0), <<>>)

SpecMetricConstraints == InitMetricConstraints /\ [][Next]_vars

\* CFO, with or without a low-cost configuration, and with two initial
\* points or none
InitCFO ==
    \/ InitWith("CFO", "min", <<>>, <<>>, Point(0), <<Point(1), Point(2)>>)
    \/ InitWith("CFO", "max", <<>>, <<>>, EmptyMap, <<Point(1), Point(2)>>)
    \/ InitWith("CFO", "min", <<>>, <<>>, EmptyMap, <<>>)
    \/ InitWith("CFO", "max", <<>>, <<>>, Point(0), <<>>)

SpecCFO == InitCFO /\ [][Next]_vars

\* CFO with an initial point that the user gives twice
InitRepeatedPoint ==
    InitWith("CFO", "min", <<>>, <<>>, Point(0), <<Point(1), Point(1)>>)

SpecRepeatedPoint == InitRepeatedPoint /\ [][Next]_vars

\* the default coordinator, maximizing without constraints, with a call of
\* set_search_properties among the other calls
InitProperties == InitWith("BlendSearch", "max", <<>>, <<>>, Point(0), <<>>)

SpecProperties == InitProperties /\ [][NextProperties]_vars

\* CFO with two initial points, or the default coordinator, with
\* checkpoints taken and restored among the other calls
InitCheckpoint ==
    \/ InitWith("CFO", "min", <<>>, <<>>, Point(0), <<Point(1), Point(2)>>)
    \/ InitWith("BlendSearch", "max", <<>>, <<>>, Point(0), <<>>)

SpecCheckpoint == InitCheckpoint /\ [][NextCheckpoint]_vars

\* the default coordinator with prune_attr, so that the local threads have
\* resource levels
InitResource == InitFrom("BlendSearch", "min", <<>>, <<>>, Point(0), <<>>, TRUE)

SpecResource == InitResource /\ [][Next]_vars

(***************************************************************************)
(* The claims.                                                             *)
(***************************************************************************)
\* a suggest call for trial t has just returned a configuration
Proposed(t) == trials[t].status = "new" /\ trials'[t].status = "running"
\* an on_trial_complete call for trial t has just ended
Completed(t) == trials[t].status = "running" /\ trials'[t].status \in {"done", "failed"}
CompletedOk(t) == trials[t].status = "running" /\ trials'[t].status = "done"
CompletedErr(t) == trials[t].status = "running" /\ trials'[t].status = "failed"

\* C1: under CFO the pool never holds more than 2 threads (slot 0 and at most
\* one local thread), and the size assertion of CFO.suggest never fails
C1_PoolAtMostTwo ==
    variant = "CFO" =>
        /\ 0 \in DOMAIN search_thread_pool
        /\ Cardinality(DOMAIN search_thread_pool \ {0}) <= 1
        /\ failure # "AssertionError"

\* C1 witness: a second local thread has replaced the first one, and the pool
\* holds it beside slot 0
C1_Witness ==
    /\ variant = "CFO"
    /\ thread_count = 3
    /\ DOMAIN search_thread_pool = {0, 2}
    /\ failure = "none"

\* C2: a configuration that suggest returns has a signature with no entry in
\* the result cache when the call starts
C2_Dedup ==
    [][\A t \in Trials :
        Proposed(t) => config_signature(trials'[t].config) \notin DOMAIN result]_vars

\* C3: no configuration that suggest returned violates a config constraint
C3_NoViolatingProposal ==
    \A t \in Trials :
        trials[t].status = "running" =>
            \A i \in 1..Len(config_constraints) :
                ~Violates(config_constraints[i], trials[t].config)

C5_ErrorEvicts ==
    [][\A t \in Trials :
        CompletedErr(t) =>
            /\ failure' = "none"
            /\ config_signature(trials[t].config) \notin DOMAIN result']_vars

\* C6: the ownership map holds only trials that are still outstanding: a
\* trial has no owner once its on_trial_complete has returned
C6_OwnersAreOutstanding ==
    \A t \in DOMAIN trial_proposed_by : trials[t].status = "running"

\* the result that the completion of trial t has just put in the cache
RecordedSig(t) == config_signature(trials[t].config)
Recorded(t) ==
    /\ CompletedOk(t)
    /\ RecordedSig(t) \in DOMAIN result'
    /\ result'[RecordedSig(t)].kind = "full"
    /\ RecordedSig(t) \in DOMAIN result => result[RecordedSig(t)] # result'[RecordedSig(t)]

\* by how much the reported value r.cons misses metric constraint i
ViolationOf(r, i) ==
    (r.cons[metric_constraints[i].metric] - metric_constraints[i].threshold)
        * (IF metric_constraints[i].sign = "<=" THEN 1 ELSE -1)
\* result r reports a value that violates metric constraint i
Violated(r, i) ==
    r.cons[metric_constraints[i].metric] # Absent /\ ViolationOf(r, i) > 0
\* the same, for a reported value other than zero
ViolatedNonzero(r, i) ==
    r.cons[metric_constraints[i].metric] # 0 /\ Violated(r, i)
MetricConstraintIds == 1..Len(metric_constraints)

\* C7: with metric constraints, the satisfied flag is false at first, turns
\* true exactly at the first non-error completion whose reported values
\* violate no constraint, and never turns false again; the penalty weights are
\* reset to 1 at that completion and at no other time
C7_SatisfiedFlag ==
    /\ metric_constraints # <<>> => ~metric_constraint_satisfied
    /\ [][metric_constraints # <<>> =>
            LET feasible == \E t \in Trials :
                                /\ Recorded(t)
                                /\ \A i \in MetricConstraintIds :
                                        ~Violated(result'[RecordedSig(t)], i)
                first == feasible /\ ~metric_constraint_satisfied
            IN  /\ metric_constraint_satisfied' = (metric_constraint_satisfied \/ feasible)
                /\ first => \A i \in MetricConstraintIds : metric_constraint_penalty'[i] = 1
                /\ ~first => \A i \in MetricConstraintIds :
                        metric_constraint_penalty'[i] = 1 => metric_constraint_penalty[i] = 1
       ]_vars

\* the penalty terms, with the weights penalty, of the constraints from i on
\* that r violates (with a value other than zero, if nonzero is set)
RECURSIVE PenaltyTerms(_, _, _, _)
PenaltyTerms(r, penalty, i, nonzero) ==
    IF i > Len(metric_constraints) THEN 0
    ELSE (IF (IF nonzero THEN ViolatedNonzero(r, i) ELSE Violated(r, i))
          THEN penalty[i] * ViolationOf(r, i) * metric_op(mode) ELSE 0)
         + PenaltyTerms(r, penalty, i + 1, nonzero)

C9_LocalBoxGrows ==
    [][\A key \in DOMAIN ls_bound_min :
        /\ ls_bound_min'[key] <= ls_bound_min[key]
        /\ ls_bound_max'[key] >= ls_bound_max[key]]_vars

\* C9 witness: the box has been widened below the low-cost point by an
\* expansion and above it by a thread created or a proposal made at x = 2
C9_Witness ==
    /\ failure = "none"
    /\ \E key \in DOMAIN ls_bound_min :
        /\ ls_bound_min[key] < normalize(init_config)[key]
        /\ ls_bound_max[key] >= normalize(Point(2))[key] + STEPSIZE

\* C10: when on_trial_complete has returned, the global admissible box equals
\* the local bounding box in every dimension
C10_BoxesEqualAfterCompletion ==
    [][\A t \in Trials :
        (Completed(t) /\ failure' = "none") =>
            /\ gs_admissible_min' = ls_bound_min'
            /\ gs_admissible_max' = ls_bound_max']_vars

\* the next fresh trial id, or NoneId when all are used
NextTrial ==
    IF \A t \in Trials : trials[t].status # "new" THEN NoneId
    ELSE CHOOSE t \in Trials :
            trials[t].status = "new" /\ \A other \in Trials : other < t => trials[other].status # "new"

\* the outcomes of suggest at time now if the deadline were at limit, the
\* deadline itself left out of the comparison
SuggestWithDeadline(limit, now) ==
    {[o EXCEPT !.s.deadline = Inf] :
        o \in suggest([Self EXCEPT !.deadline = limit], NextTrial, now)}

\* the (top, backup) pair selected at time now if the deadline were at limit
SelectedAt(limit, now, look, eci) ==
    LET selected == select_with(Self, prioritized([Self EXCEPT !.deadline = limit],
                                                  now, look, eci))
    IN  <<selected.top_thread_id, selected.backup_thread_id>>

\* C11: the deadline never stops suggestion: at every time the thread
\* selection returns a top and a backup that are both in the pool (never a
\* negative timeout marker), and at every time past the deadline the
\* selection, and the whole of suggest, is what it is with zero remaining
\* budget
C11_DeadlineAdvisory ==
    (failure = "none" /\ variant = "BlendSearch") =>
        \A now \in Times :
            /\ \A sel \in BlendSearch_select_thread(Self, now) :
                /\ sel.ok
                /\ sel.top \in DOMAIN search_thread_pool
                /\ sel.backup \in DOMAIN search_thread_pool
            /\ now >= deadline =>
                /\ \A look \in Looks(Self), eci \in 0..MaxPrio :
                    SelectedAt(deadline, now, look, eci) = SelectedAt(now, now, look, eci)
                /\ NextTrial # NoneId =>
                    SuggestWithDeadline(deadline, now) = SuggestWithDeadline(now, now)

\* C11 witness: a trial is running that was proposed past the deadline, in
\* steady state, while a local thread was in the pool
C11_Witness ==
    /\ failure = "none"
    /\ deadline # Inf
    /\ LocalIds(Self) # {}
    /\ \E t \in Trials :
        trials[t].status = "running" /\ trials[t].late /\ t \in DOMAIN trial_proposed_by

C13_CheckpointRoundTrip ==
    failure = "none" =>
        LET restored == restore(restore_target(Self), save(Self))
        IN  /\ restored.failure = "none"
            /\ restored = Self

\* CFO was constructed with more than one initial point
MultiplePoints == variant = "CFO" /\ ~candidate_start_points.isNone

\* C19: under CFO with more than one initial point every on_trial_complete
\* of an outstanding trial ends without a failure
C19_CompletionNeverFails ==
    [][\A t \in Trials : (MultiplePoints /\ Completed(t)) => failure' = "none"]_vars

\* the sign-adjusted objective of a candidate's result
SignedObjective(r) == r.metric * metric_op(mode)

\* C12: under CFO with more than one initial point, a step that creates a
\* local thread leaves no initial point queued or running, and the first
\* local thread starts from an initial point whose sign-adjusted objective
\* is not worse than that of any other initial point
C12_FirstThreadFromBestPoint ==
    [][(MultiplePoints /\ failure' = "none" /\ thread_count' > thread_count) =>
        /\ points_to_evaluate' = <<>>
        /\ \A t \in DOMAIN candidate_start_points.points : trials'[t].status # "running"
        /\ thread_count = 1 =>
            /\ started_from_given' = "true"
            /\ \A t \in DOMAIN candidate_start_points'.points :
                Truthy(candidate_start_points'.points[t]) =>
                    search_thread_pool'[1].obj_best1
                        <= SignedObjective(candidate_start_points'.points[t])]_vars

\* C20: an on_trial_complete with error = true creates no local thread and
\* leaves the best-known target as it is, and the result of a failed
\* candidate start point is not recorded as a candidate result
C20_ErrorCreatesNothing ==
    [][\A t \in Trials :
        (CompletedErr(t) /\ failure' = "none") =>
            /\ thread_count' = thread_count
            /\ DOMAIN search_thread_pool' \subseteq DOMAIN search_thread_pool
            /\ metric_target' = metric_target
            /\ t \in DOMAIN candidate_start_points'.points =>
                ~Truthy(candidate_start_points'.points[t])]_vars

\* the partial results on_trial_result may be called with
PartialResults == UNION {Reports(config) : config \in Configs}

\* C15: on_trial_result changes no field of the coordinator; it hands
\* nothing to any thread when the trial has no owner or its owner is not in
\* the pool, and otherwise hands the result to the owner alone, the lagrange
\* field of a result with content being the reported primary metric when
\* metric constraints are configured
C15_TrialResultForwarded ==
    failure = "none" =>
        \A trial_id \in Trials, r \in PartialResults :
            LET o == on_trial_result(Self, trial_id, r)
                owned == /\ trial_id \in DOMAIN trial_proposed_by
                         /\ trial_proposed_by[trial_id] \in DOMAIN search_thread_pool
            IN  /\ o.s = Self
                /\ ~owned => o.delivered = {}
                /\ owned =>
                    /\ \E d \in o.delivered : o.delivered = {d}
                    /\ \A d \in o.delivered :
                        /\ d.thread_id = trial_proposed_by[trial_id]
                        /\ [d.result EXCEPT !.hasLagrange = FALSE, !.lagrange = 0] = r
                        /\ (Truthy(r) /\ metric_constraints # <<>>) =>
                            d.result.hasLagrange /\ d.result.lagrange = r.metric

\* C15 witness: with metric constraints configured, a running trial is
\* owned by a local thread that has been removed from the pool
C15_Witness ==
    /\ failure = "none"
    /\ metric_constraints # <<>>
    /\ \E t \in DOMAIN trial_proposed_by :
        /\ trials[t].status = "running"
        /\ trial_proposed_by[t] \notin DOMAIN search_thread_pool

\* the configurations _valid may be asked about: complete ones, and the
\* empty partial one
Candidates == Configs \cup {EmptyMap}

\* config lies in the global admissible box widened by STEPSIZE, in every
\* dimension of the box that is a key of config
WithinSlack(config) ==
    \A key \in DOMAIN gs_admissible_min \cap DOMAIN config :
        /\ gs_admissible_min[key] - STEPSIZE <= normalize(config)[key]
        /\ normalize(config)[key] <= gs_admissible_max[key] + STEPSIZE

C17_InferiorIff ==
    \A id1, id2 \in LocalIds(Self), reach \in BOOLEAN :
        LET A == search_thread_pool[id1]
            B == search_thread_pool[id2]
        IN  /\ inferior(A, B, reach) <=>
                /\ ~(A.obj_best1 < B.obj_best2)
                /\ ~(A.resource # 0 /\ A.resource < B.resource)
                /\ reach
            /\ A.obj_best1 < B.obj_best2 => ~inferior(A, B, reach)

\* C17 witness: after a pruning pass two local threads are in the pool, the
\* first of which does not beat the second-best objective of the other and
\* is at a smaller resource level
C17_Witness ==
    /\ failure = "none"
    /\ \E id1, id2 \in LocalIds(Self) :
        /\ search_thread_pool[id1].obj_best1 >= search_thread_pool[id2].obj_best2
        /\ search_thread_pool[id1].resource # 0
        /\ search_thread_pool[id1].resource < search_thread_pool[id2].resource

\* C18: in every state the global admissible box contains the local bounding
\* box: in every dimension global_min <= local_min and global_max >= local_max
C18_GlobalBoxContainsLocal ==
    \A key \in DOMAIN ls_bound_min :
        /\ gs_admissible_min[key] <= ls_bound_min[key]
        /\ gs_admissible_max[key] >= ls_bound_max[key]

\* the result with which trial t has just been completed without error, as
\* the cache holds it
CompletedWith(t) == result'[RecordedSig(t)]
HasCompletedWith(t) ==
    /\ CompletedOk(t)
    /\ RecordedSig(t) \in DOMAIN result'
    /\ result'[RecordedSig(t)].kind = "full"

\* C21: in the default coordinator a call creates a local thread only if it
\* is an on_trial_complete without error and with a result, for a trial whose
\* recorded owner is thread 0, that violates no metric constraint and for
\* which the creation condition is true; the new thread's id is the thread
\* counter, which then grows by one, and the counter never decreases
C21_SpawnOnlyWhen ==
    [][variant = "BlendSearch" =>
        /\ thread_count' >= thread_count
        /\ (failure' = "none" /\ thread_count' # thread_count) =>
            /\ thread_count' = thread_count + 1
            /\ DOMAIN search_thread_pool' \ DOMAIN search_thread_pool \subseteq {thread_count}
            /\ \E t \in Trials :
                /\ HasCompletedWith(t)
                /\ t \in DOMAIN trial_proposed_by
                /\ trial_proposed_by[t] = 0
                /\ \A i \in MetricConstraintIds : ~Violated(CompletedWith(t), i)
                /\ BlendSearch_create_condition(Self, CompletedWith(t)) = "T"]_vars

\* the best-found objectives of the local threads ids, in ascending order
RECURSIVE SortedBest(_)
SortedBest(ids) ==
    IF ids = {} THEN <<>>
    ELSE LET first == CHOOSE i \in ids : \A j \in ids :
                 search_thread_pool[i].obj_best1 <= search_thread_pool[j].obj_best1
         IN <<search_thread_pool[first].obj_best1>> \o SortedBest(ids \ {first})

\* twice the median of the best-found objectives of all local threads
TwiceMedianBest ==
    LET sorted == SortedBest(DOMAIN search_thread_pool \ {0})
        n == Len(sorted)
    IN IF n % 2 = 1 THEN 2 * sorted[(n + 1) \div 2]
       ELSE sorted[n \div 2] + sorted[n \div 2 + 1]

NewResults == {FullResult(DummyConfig, value, NoCons) : value \in 0..MaxObj}

\* C22: the default creation condition is true when the pool holds fewer
\* than 2 threads, and otherwise true iff the sign-adjusted objective of the
\* new result is strictly less than the median of obj_best1 over all local
\* threads of the pool
C22_CreateCondition ==
    variant = "BlendSearch" =>
        \A r \in NewResults :
            BlendSearch_create_condition(Self, r) = "T" <=>
                \/ Cardinality(DOMAIN search_thread_pool) < 2
                \/ 2 * SignedObjective(r) < TwiceMedianBest
C22_Witness ==
    /\ variant = "BlendSearch"
    /\ \E i, j \in DOMAIN search_thread_pool \ {0} :
           search_thread_pool[i].obj_best1 < search_thread_pool[j].obj_best1
    /\ \E t \in Trials :
           /\ trials[t].status = "running"
           /\ t \in DOMAIN trial_proposed_by
           /\ trial_proposed_by[t] = 0
    /\ \E r \in NewResults : BlendSearch_create_condition(Self, r) = "T"
    /\ \E r \in NewResults : BlendSearch_create_condition(Self, r) = "F"

\* suggest passes the assertion of CFO and takes the steady-state branch,
\* where the thread selection is called
SelectionInvoked ==
    /\ Cardinality(DOMAIN search_thread_pool) < 3
    /\ Cardinality(DOMAIN search_thread_pool) >= 2
    /\ init_used
    /\ points_to_evaluate = <<>>

\* C23: under CFO a suggest called while the pool holds only thread 0 is the
\* bootstrap path of the re-armed coordinator; the thread selection is
\* called only with exactly one local thread and returns it as top and as
\* backup; no steady-state proposal is owned by thread 0 and the selection
\* never fails for lack of a local thread
C23_CFOSelection ==
    (variant = "CFO" /\ failure = "none" /\ NextTrial # NoneId) =>
        \A now \in Times :
            /\ DOMAIN search_thread_pool = {0} =>
                   suggest(Self, NextTrial, now) =
                       bootstrap([Self EXCEPT !.init_used = FALSE], NextTrial)
            /\ SelectionInvoked =>
                   \E id \in DOMAIN search_thread_pool \ {0} :
                       /\ DOMAIN search_thread_pool = {0, id}
                       /\ select_thread(Self, now) =
                              {[ok |-> TRUE, top |-> id, backup |-> id]}
            /\ \A o \in suggest(Self, NextTrial, now) :
                   /\ o.s.failure # "TypeError"
                   /\ (SelectionInvoked /\ o.has) =>
                          /\ NextTrial \in DOMAIN o.s.trial_proposed_by
                          /\ o.s.trial_proposed_by[NextTrial] # 0
\* a local thread has been created and has gone, and suggest is called with
\* the bootstrap flag still set
C23_Witness ==
    /\ variant = "CFO"
    /\ failure = "none"
    /\ NextTrial # NoneId
    /\ DOMAIN search_thread_pool = {0}
    /\ thread_count > 1
    /\ init_used
    /\ points_to_evaluate = <<>>

\* the local threads with can_suggest true
Able(look) == {id \in DOMAIN search_thread_pool \ {0} : look.can_suggest[id]}

\* the first thread, in insertion order, of maximal priority among ids
FirstOfMaximal(look, ids) ==
    CHOOSE id \in ids : \A other \in ids :
        \/ look.priority[other] < look.priority[id]
        \/ look.priority[other] = look.priority[id] /\ id <= other

\* C24: the default selection returns top 0 unless a local thread with
\* can_suggest true has a priority strictly greater than that of thread 0,
\* and then the first such thread of maximal priority; the backup is
\* non-zero whenever a local thread with can_suggest true exists, and then
\* the first of maximal priority among them; a local top is also the backup
C24_SelectThread ==
    variant = "BlendSearch" =>
        \A look \in Looks(Self) :
            LET selected == select_with(Self, look)
                top == selected.top_thread_id
                backup == selected.backup_thread_id
            IN  /\ top = IF \E id \in Able(look) : look.priority[id] > look.priority[0]
                         THEN FirstOfMaximal(look, Able(look)) ELSE 0
                /\ backup = IF Able(look) # {}
                            THEN FirstOfMaximal(look, Able(look)) ELSE 0
                /\ top # 0 => backup = top
\* suggest is about to select among two local threads
C24_Witness ==
    /\ variant = "BlendSearch"
    /\ failure = "none"
    /\ NextTrial # NoneId
    /\ init_used
    /\ points_to_evaluate = <<>>
    /\ Cardinality(DOMAIN search_thread_pool \ {0}) >= 2

\* thread id1 is inferior to thread id2 in the pool of the current state
Dominated(id1, id2, reach) ==
    inferior(search_thread_pool[id1], search_thread_pool[id2], reach[<<id2, id1>>])

\* the pruning pass for local thread T has returned state after, with the
\* pool and the local box that the domination tests before the pass require
PrunedAsClaimed(T, reach, after) ==
    LET others == DOMAIN search_thread_pool \ {0, T}
        converged == search_thread_pool[T].converged
        beaten == \E id \in others : Dominated(T, id, reach)
        marked == {id \in others : Dominated(id, T, reach)}
                      \cup (IF converged \/ beaten THEN {T} ELSE {})
    IN  /\ \A id \in others :
               Dominated(id, T, reach) => id \notin DOMAIN after.search_thread_pool
        /\ T \notin DOMAIN after.search_thread_pool <=> (converged \/ beaten)
        /\ 0 \in DOMAIN after.search_thread_pool
        /\ \A id \in DOMAIN search_thread_pool \ marked :
               id \in DOMAIN after.search_thread_pool
        /\ converged =>
               /\ after.ls_bound_min = [k \in DOMAIN ls_bound_min |-> ls_bound_min[k] - STEPSIZE]
               /\ after.ls_bound_max = [k \in DOMAIN ls_bound_max |-> ls_bound_max[k] + STEPSIZE]

\* C25: after the pruning pass for local thread T returns, every other local
\* thread that was inferior to T is gone, T is gone iff it had converged or
\* was inferior to another local thread, thread 0 and every unmarked thread
\* are still in the pool, the tests being those on the pool before any
\* deletion, and if T had converged both ends of the local box are one step
\* further out in every dimension
C25_PruningPass ==
    failure = "none" =>
        \A T \in DOMAIN search_thread_pool \ {0} :
            \A reach \in ReachChoices(Self, T) :
                LET after == clean(Self, T, reach) IN
                after.failure = "none" => PrunedAsClaimed(T, reach, after)
\* a trial of a local thread is running while another local thread that it
\* does not beat is in the pool
C25_Witness ==
    /\ failure = "none"
    /\ \E T, other \in DOMAIN search_thread_pool \ {0} :
        /\ T # other
        /\ search_thread_pool[T].obj_best1 >= search_thread_pool[other].obj_best2
        /\ ~search_thread_pool[T].converged
        /\ \E t \in Trials :
            /\ trials[t].status = "running"
            /\ t \in DOMAIN trial_proposed_by
            /\ trial_proposed_by[t] = T

\* the sign-adjusted value of objective or target value
Signed(value) == value * metric_op(mode)

\* the objective of the result trial t has just been completed with: the
\* constraint-adjusted one when metric constraints are configured
CompletedObjective(t) == LsMetric(Self, CompletedWith(t))

\* C26: without a reset or an override of the target, the best-known target
\* only improves: a step changes it only by a completion without error
\* whose objective is strictly better in the sign-adjusted sense, to that
\* objective, and after every completion without error the sign-adjusted
\* target is at most the sign-adjusted objective of the completion; so it is
\* at most that of every such completion received so far, in any order
C26_TargetOnlyImproves ==
    [][property_calls' = property_calls =>
        /\ Signed(metric_target') <= Signed(metric_target)
        /\ metric_target' # metric_target =>
               \E t \in Trials :
                   /\ Recorded(t)
                   /\ Signed(CompletedObjective(t)) < Signed(metric_target)
                   /\ metric_target' = CompletedObjective(t)
        /\ \A t \in Trials :
               Recorded(t) => Signed(metric_target') <= Signed(CompletedObjective(t))]_vars
\* two completions have been received, the second one without improvement
C26_Witness ==
    /\ failure = "none"
    /\ \E sig1, sig2 \in DOMAIN result :
        /\ result[sig1].kind = "full"
        /\ result[sig2].kind = "full"
        /\ LsMetric(Self, result[sig1]) = metric_target
        /\ Signed(LsMetric(Self, result[sig2])) > Signed(metric_target)

\* a suggest call for trial t has just returned None
ReturnedAbsent(t) == trials[t].status = "new" /\ trials'[t].status = "absent"

\* suggest was called in bootstrap mode
BootstrapCall ==
    \/ ~init_used
    \/ points_to_evaluate # <<>>
    \/ variant = "CFO" /\ Cardinality(DOMAIN search_thread_pool) < 2

\* C27: when suggest returns a configuration for a trial, the ownership map
\* holds the trial with an owner that is in the pool at return (thread 0 in
\* bootstrap mode) and the cache holds an empty placeholder for the
\* signature of the configuration; when suggest returns None, the trial has
\* no owner and no entry among the candidate start points
C27_SuggestBookkeeping ==
    [][\A t \in Trials :
        /\ (Proposed(t) /\ failure' = "none") =>
            /\ t \in DOMAIN trial_proposed_by'
            /\ trial_proposed_by'[t] \in DOMAIN search_thread_pool'
            /\ BootstrapCall => trial_proposed_by'[t] = 0
            /\ config_signature(trials'[t].config) \in DOMAIN result'
            /\ result'[config_signature(trials'[t].config)] = EmptyResult
        /\ (ReturnedAbsent(t) /\ failure' = "none") =>
            /\ t \notin DOMAIN trial_proposed_by'
            /\ t \notin DOMAIN candidate_start_points'.points]_vars

====
